---- MODULE Spec2Model ----
(***************************************************************************)
(* A model of the frugal resolvent-splitting engine of oars:               *)
(*   src/oars/algorithms/parallel.py  parallelAlgorithm, requiredQueues,   *)
(*                                    subproblem, evaluate                 *)
(*   src/oars/algorithms/serial.py    serialAlgorithm                      *)
(*   src/tests/proxs.py               absprox (the L1 resolvent)           *)
(*                                                                         *)
(* Iterates are vectors of shape (1,), modelled as integers; gamma and     *)
(* alpha are integers.  Nodes are numbered 0 .. n-1 as in the source.      *)
(* A queue is a sequence; put appends, get blocks while it is empty and    *)
(* removes the head.  Every message carries, beside the value x that the   *)
(* code sends, the round k in which the sender computed it (a history      *)
(* field the code does not have).  A queue built with maxsize = 0, as the  *)
(* code builds them, never blocks a put; with maxsize > 0 a put blocks     *)
(* while the queue holds maxsize messages.                                 *)
(***************************************************************************)
EXTENDS Integers, Sequences, FiniteSets, TLC

VARIABLES
    \* the arguments of parallelAlgorithm / serialAlgorithm
    n, data, W, Z, gamma, alpha, itrs_arg, vartol, warmstartdual,
    \* the maxsize the queues are built with, and the (node, round) whose
    \* resolvent raises (None: no call raises)
    maxsize, fault,
    \* parallelAlgorithm
    dpc, L, queue, tqueue, Comms_Data, terminate, all_v, results, xbar,
    \* subproblem, one per node
    pc, itr, itrs, local_v, local_r, v_temp, w_value, idx,
    \* history of each subproblem: prox calls made, target seen at a loop top
    nprox, saw,
    \* the value each prox call of the subproblem returned, in order
    x_hist,
    \* the round at whose top the subproblem first read a target (-1: not yet)
    first_k,
    \* history of each queue: the puts and the gets made on it
    nput, nget,
    \* evaluate
    e_pc, e_i, e_w, e_prev_w, e_varcounter, e_itr, e_itrs,
    \* history of evaluate: the delta of each of its rounds
    e_hist

args == <<n, data, W, Z, gamma, alpha, itrs_arg, vartol, warmstartdual, maxsize, fault>>
driver == <<dpc, L, Comms_Data, all_v, results, xbar>>
seen == <<saw, first_k>>
calls == <<nprox, x_hist>>
worker == <<pc, itr, itrs, local_v, local_r, v_temp, w_value, idx, calls, seen>>
monitor == <<e_pc, e_i, e_w, e_prev_w, e_varcounter, e_itr, e_itrs, e_hist>>
chan == <<queue, nput, nget>>
vars == <<args, driver, chan, tqueue, terminate, worker, monitor>>

\* Python's None; an optional number v is kept as the one-element tuple <<v>>
None == <<>>

(***************************************************************************)
(* Bounds of the model.                                                    *)
(***************************************************************************)
\* the largest itrs the caller passes to a run without a monitor
MaxItrs == 2
\* how far past the earliest possible target the itrs of a monitored run go
MonSlack == 0
\* the maxsize of the queues of a run on bounded channels
Capacity == 2

(***************************************************************************)
(* Program constants.                                                      *)
(***************************************************************************)
\* evaluate: itrs -= 10
EvalMargin == 10
\* evaluate: if varcounter >= 10
StreakNeeded == 10
\* evaluate: terminate.value = itr + 10
TargetAhead == 10

Nodes == 0 .. (n - 1)

RECURSIVE SumOver(_, _)
SumOver(f, S) ==
    IF S = {} THEN 0
    ELSE LET e == CHOOSE e \in S : TRUE IN f[e] + SumOver(f, S \ {e})

Abs(a) == IF a < 0 THEN -a ELSE a
Sign(a) == IF a < 0 THEN -1 ELSE IF a > 0 THEN 1 ELSE 0
Max(a, b) == IF a >= b THEN a ELSE b

\* np.isclose(a, 0.0) on integer entries
isclose0(a) == a = 0

\* absprox.prox(y, tau) with self.data = d
absprox(d, y, tau) ==
    LET u == y - d
    IN  Max(Abs(u) - tau, 0) * Sign(u) + d

\* resolvent.prox of node i
prox(i, y, tau) == absprox(data[i], y, tau)

(***************************************************************************)
(* requiredQueues(man, W, L): the channel table and the five peer lists.   *)
(***************************************************************************)
\* W.shape[0]
shape0(M) == Cardinality(DOMAIN M)

\* Comms_Data as built by the first loop: five empty lists per node
emptyComms(nn) ==
    [i \in 0 .. (nn - 1) |->
        [WQ |-> <<>>, up_LQ |-> <<>>, down_LQ |-> <<>>, up_BQ |-> <<>>, down_BQ |-> <<>>]]

\* comms[node][key].append(peer)
appendPeer(comms, node, key, peer) ==
    [comms EXCEPT ![node][key] = Append(@, peer)]

\* planPair with the down_BQ append of the both-coupled branch left out
planPairNoDownBQ(Wm, Lm, i, j, st) ==
    IF ~isclose0(Wm[i][j])
    THEN LET qa == st.Queue_Array \cup {<<i, j>>, <<j, i>>}
         IN  IF ~isclose0(Lm[i][j])
             THEN [Queue_Array |-> qa,
                   Comms_Data |-> appendPeer(st.Comms_Data, i, "up_BQ", j)]
             ELSE [Queue_Array |-> qa,
                   Comms_Data |-> appendPeer(appendPeer(st.Comms_Data, j, "WQ", i),
                                             i, "WQ", j)]
    ELSE IF ~isclose0(Lm[i][j])
    THEN [Queue_Array |-> st.Queue_Array \cup {<<j, i>>},
          Comms_Data |-> appendPeer(appendPeer(st.Comms_Data, i, "up_LQ", j),
                                    j, "down_LQ", i)]
    ELSE st

\* planPair creating both channels for an L-only pair too
planPairBothChannels(Wm, Lm, i, j, st) ==
    IF ~isclose0(Wm[i][j])
    THEN LET qa == st.Queue_Array \cup {<<i, j>>, <<j, i>>}
         IN  IF ~isclose0(Lm[i][j])
             THEN [Queue_Array |-> qa,
                   Comms_Data |-> appendPeer(appendPeer(st.Comms_Data, i, "up_BQ", j),
                                             j, "down_BQ", i)]
             ELSE [Queue_Array |-> qa,
                   Comms_Data |-> appendPeer(appendPeer(st.Comms_Data, j, "WQ", i),
                                             i, "WQ", j)]
    ELSE IF ~isclose0(Lm[i][j])
    THEN [Queue_Array |-> st.Queue_Array \cup {<<i, j>>, <<j, i>>},
          Comms_Data |-> appendPeer(appendPeer(st.Comms_Data, i, "up_LQ", j),
                                    j, "down_LQ", i)]
    ELSE st

\* planPair testing "W or L" in the outer if: an L-only pair is planned as a
\* pure-W pair
planPairLOnlyAsW(Wm, Lm, i, j, st) ==
    IF ~isclose0(Wm[i][j]) \/ ~isclose0(Lm[i][j])
    THEN LET qa == st.Queue_Array \cup {<<i, j>>, <<j, i>>}
         IN  IF ~isclose0(Lm[i][j]) /\ ~isclose0(Wm[i][j])
             THEN [Queue_Array |-> qa,
                   Comms_Data |-> appendPeer(appendPeer(st.Comms_Data, i, "up_BQ", j),
                                             j, "down_BQ", i)]
             ELSE [Queue_Array |-> qa,
                   Comms_Data |-> appendPeer(appendPeer(st.Comms_Data, j, "WQ", i),
                                             i, "WQ", j)]
    ELSE st

\* planPair with the pure-W pair appended at the higher node only
planPairWQOneEnd(Wm, Lm, i, j, st) ==
    IF ~isclose0(Wm[i][j])
    THEN LET qa == st.Queue_Array \cup {<<i, j>>, <<j, i>>}
         IN  IF ~isclose0(Lm[i][j])
             THEN [Queue_Array |-> qa,
                   Comms_Data |-> appendPeer(appendPeer(st.Comms_Data, i, "up_BQ", j),
                                             j, "down_BQ", i)]
             ELSE [Queue_Array |-> qa,
                   Comms_Data |-> appendPeer(st.Comms_Data, i, "WQ", j)]
    ELSE IF ~isclose0(Lm[i][j])
    THEN [Queue_Array |-> st.Queue_Array \cup {<<j, i>>},
          Comms_Data |-> appendPeer(appendPeer(st.Comms_Data, i, "up_LQ", j),
                                    j, "down_LQ", i)]
    ELSE st

\* planPair listing a pair coupled through both W and L in the WQ lists too:
\* a second message per round for the W contribution
planPairBQAlsoWQ(Wm, Lm, i, j, st) ==
    IF ~isclose0(Wm[i][j])
    THEN LET qa == st.Queue_Array \cup {<<i, j>>, <<j, i>>}
             both == appendPeer(appendPeer(st.Comms_Data, j, "WQ", i), i, "WQ", j)
         IN  IF ~isclose0(Lm[i][j])
             THEN [Queue_Array |-> qa,
                   Comms_Data |-> appendPeer(appendPeer(both, i, "up_BQ", j),
                                             j, "down_BQ", i)]
             ELSE [Queue_Array |-> qa, Comms_Data |-> both]
    ELSE IF ~isclose0(Lm[i][j])
    THEN [Queue_Array |-> st.Queue_Array \cup {<<j, i>>},
          Comms_Data |-> appendPeer(appendPeer(st.Comms_Data, i, "up_LQ", j),
                                    j, "down_LQ", i)]
    ELSE st

\* the body of the inner loop for one pair i > j; st is (Queue_Array, Comms_Data),
\* Queue_Array kept as its set of keys
planPair(Wm, Lm, i, j, st) ==
    IF ~isclose0(Wm[i][j])
    THEN LET qa == st.Queue_Array \cup {<<i, j>>, <<j, i>>}
         IN  IF ~isclose0(Lm[i][j])
             THEN [Queue_Array |-> qa,
                   Comms_Data |-> appendPeer(appendPeer(st.Comms_Data, i, "up_BQ", j),
                                             j, "down_BQ", i)]
             ELSE [Queue_Array |-> qa,
                   Comms_Data |-> appendPeer(appendPeer(st.Comms_Data, j, "WQ", i),
                                             i, "WQ", j)]
    ELSE IF ~isclose0(Lm[i][j])
    THEN [Queue_Array |-> st.Queue_Array \cup {<<j, i>>},
          Comms_Data |-> appendPeer(appendPeer(st.Comms_Data, i, "up_LQ", j),
                                    j, "down_LQ", i)]
    ELSE st

\* for i in range(n): for j in range(i): ...
RECURSIVE planLoop(_, _, _, _, _)
planLoop(Wm, Lm, i, j, st) ==
    IF i >= shape0(Wm) THEN st
    ELSE IF j >= i THEN planLoop(Wm, Lm, i + 1, 0, st)
    ELSE planLoop(Wm, Lm, i, j + 1, planPair(Wm, Lm, i, j, st))

requiredQueues(Wm, Lm) ==
    planLoop(Wm, Lm, 0, 0,
             [Queue_Array |-> {}, Comms_Data |-> emptyComms(shape0(Wm))])

\* L = -np.tril(Z, -1)
negStrictLower(Zm) ==
    [i \in DOMAIN Zm |-> [j \in DOMAIN Zm |-> IF j < i THEN -Zm[i][j] ELSE 0]]

(***************************************************************************)
(* The inputs a run is started with.                                       *)
(***************************************************************************)
\* off-diagonal entries of W, entries of Z below the diagonal
WeightSet == {-1, 0}
ZSet == {-2, 0}
\* data points of the L1 resolvents (absprox), node i gets DataPoints[i+1]
DataPoints == <<1, 2, 10>>

LowerPairs(nn) == {p \in (0 .. (nn - 1)) \X (0 .. (nn - 1)) : p[1] > p[2]}

\* a symmetric W with zero row sums from its entries below the diagonal
symmetricW(nn, w) ==
    [i \in 0 .. (nn - 1) |->
        [j \in 0 .. (nn - 1) |->
            IF i > j THEN w[<<i, j>>]
            ELSE IF i < j THEN w[<<j, i>>]
            ELSE -SumOver([k \in 0 .. (nn - 1) |->
                              IF k > i THEN w[<<k, i>>]
                              ELSE IF k < i THEN w[<<i, k>>] ELSE 0],
                          0 .. (nn - 1))]]

\* a symmetric Z with the given entries off the diagonal and 2 on it
symmetricZ(nn, z) ==
    [i \in 0 .. (nn - 1) |->
        [j \in 0 .. (nn - 1) |->
            IF i > j THEN z[<<i, j>>] ELSE IF i < j THEN z[<<j, i>>] ELSE 2]]

WSet(nn) == {symmetricW(nn, w) : w \in [LowerPairs(nn) -> WeightSet]}
ZMats(nn) == {symmetricZ(nn, z) : z \in [LowerPairs(nn) -> ZSet]}

\* dual warm starts: none, or u with sum 0
DualSet(nn) ==
    {None} \cup {[i \in 0 .. (nn - 1) |-> IF i = 0 THEN 1 ELSE IF i = nn - 1 THEN -1 ELSE 0]}

\* the number of nodes of a run without a monitor (three pairs: every mix of
\* pure-W, L-only, both-coupled and uncoupled pairs occurs), and of a run of
\* MonItrs rounds (one pair, of each of the four kinds)
NodeCounts == {3}
MonNodeCounts == {2}
\* gamma and alpha, as integers
GammaSet == {2}
AlphaSet == {1}

\* the state before parallelAlgorithm is called with the arguments chosen,
\* queues of maxsize ms, and the resolvent call flt raising
InitArgs(nn, its, vt, gammas, Ws, Zs, ms, flt) ==
    /\ n = nn
    /\ maxsize = ms
    /\ fault = flt
    /\ nput = <<>>
    /\ nget = <<>>
    /\ first_k = [i \in 0 .. (nn - 1) |-> -1]
    /\ data = [i \in 0 .. (nn - 1) |-> DataPoints[i + 1]]
    /\ W \in Ws
    /\ Z \in Zs
    /\ gamma \in gammas
    /\ alpha \in AlphaSet
    /\ itrs_arg = its
    /\ vartol = vt
    /\ warmstartdual \in DualSet(nn)
    /\ dpc = "call"
    /\ L = <<>>
    /\ queue = <<>>
    /\ tqueue = <<>>
    /\ Comms_Data = <<>>
    /\ terminate = None
    /\ all_v = <<>>
    /\ results = <<>>
    /\ xbar = None
    /\ pc = [i \in 0 .. (nn - 1) |-> "idle"]
    /\ itr = [i \in 0 .. (nn - 1) |-> 0]
    /\ itrs = [i \in 0 .. (nn - 1) |-> its]
    /\ local_v = [i \in 0 .. (nn - 1) |-> 0]
    /\ local_r = [i \in 0 .. (nn - 1) |-> 0]
    /\ v_temp = [i \in 0 .. (nn - 1) |-> 0]
    /\ w_value = [i \in 0 .. (nn - 1) |-> 0]
    /\ idx = [i \in 0 .. (nn - 1) |-> 1]
    /\ nprox = [i \in 0 .. (nn - 1) |-> 0]
    /\ x_hist = [i \in 0 .. (nn - 1) |-> <<>>]
    /\ saw = [i \in 0 .. (nn - 1) |-> FALSE]
    /\ e_pc = "absent"
    /\ e_i = 0
    /\ e_w = <<>>
    /\ e_prev_w = <<>>
    /\ e_varcounter = 0
    /\ e_itr = 0
    /\ e_itrs = its
    /\ e_hist = <<>>

\* the code as it is: man.Queue() has maxsize 0, W and Z are those of a
\* splitting, and no resolvent raises
InitWith(nn, its, vt, gammas) ==
    InitArgs(nn, its, vt, gammas, WSet(nn), ZMats(nn), 0, None)

\* vartol=None: no monitor
Init ==
    \E nn \in NodeCounts, its \in 0 .. MaxItrs : InitWith(nn, its, None, GammaSet)

(***************************************************************************)
(* parallelAlgorithm, lines 28-59: L, the queues, the monitor process,     *)
(* v0, and the pool of n subproblem processes (each up to its loop).       *)
(* warmstartprimal is None: getWarmPrimal is not part of these sources.    *)
(***************************************************************************)
\* seedV ignoring the dual warm start
seedVNoDual(nn, dual) == [i \in 0 .. (nn - 1) |-> 0]

\* all_v = [0 ...]; with warmstartdual, all_v[i] + warmstartdual[i]
seedV(nn, dual) ==
    [i \in 0 .. (nn - 1) |-> IF dual = None THEN 0 ELSE 0 + dual[i]]

\* Phases with the receives from the WQ peers ahead of the sends to them
PhasesRecvFirst ==
    <<"get_up_LQ", "get_up_BQ", "prox", "put_down_LQ", "put_down_BQ",
      "get_WQ", "put_WQ", "put_up_BQ", "get_down_BQ", "update">>

\* Phases with the resolvent ahead of the receives from the up peers
PhasesProxFirst ==
    <<"prox", "get_up_LQ", "get_up_BQ", "put_down_LQ", "put_down_BQ",
      "put_WQ", "put_up_BQ", "get_WQ", "get_down_BQ", "update">>

\* Phases with the consensus update ahead of the receives it needs
PhasesUpdateEarly ==
    <<"get_up_LQ", "get_up_BQ", "prox", "put_down_LQ", "put_down_BQ",
      "put_WQ", "put_up_BQ", "update", "get_WQ", "get_down_BQ">>

\* Phases with the sends to the up_BQ peers after the receives of the round
PhasesPutUpBQLast ==
    <<"get_up_LQ", "get_up_BQ", "prox", "put_down_LQ", "put_down_BQ",
      "put_WQ", "get_WQ", "get_down_BQ", "put_up_BQ", "update">>

\* Phases with the sends to the down_LQ peers ahead of the resolvent
PhasesSendFirst ==
    <<"get_up_LQ", "get_up_BQ", "put_down_LQ", "prox", "put_down_BQ",
      "put_WQ", "put_up_BQ", "get_WQ", "get_down_BQ", "update">>

\* the loop phases of subproblem in program order
Phases ==
    <<"get_up_LQ", "get_up_BQ", "prox", "put_down_LQ", "put_down_BQ",
      "put_WQ", "put_up_BQ", "get_WQ", "get_down_BQ", "update">>

\* the peer list a phase iterates over
PhaseKey(ph) ==
    CASE ph = "get_up_LQ" -> "up_LQ"
      [] ph = "get_up_BQ" -> "up_BQ"
      [] ph = "put_down_LQ" -> "down_LQ"
      [] ph = "put_down_BQ" -> "down_BQ"
      [] ph = "put_WQ" -> "WQ"
      [] ph = "put_up_BQ" -> "up_BQ"
      [] ph = "get_WQ" -> "WQ"
      [] ph = "get_down_BQ" -> "down_BQ"

PhaseNo(ph) == CHOOSE k \in 1 .. Len(Phases) : Phases[k] = ph

\* the first phase from number k on that has a statement to execute: a for
\* loop over an empty list executes nothing
RECURSIVE firstPhase(_, _)
firstPhase(comms, k) ==
    IF Phases[k] \in {"prox", "update"} THEN Phases[k]
    ELSE IF Len(comms[PhaseKey(Phases[k])]) > 0 THEN Phases[k]
    ELSE firstPhase(comms, k + 1)

Start ==
    /\ dpc = "call"
    /\ LET Lm == negStrictLower(Z)
           plan == requiredQueues(W, Lm)
       IN  /\ L' = Lm
           /\ queue' = [key \in plan.Queue_Array |-> <<>>]
           /\ nput' = [key \in plan.Queue_Array |-> 0]
           /\ nget' = [key \in plan.Queue_Array |-> 0]
           /\ Comms_Data' = plan.Comms_Data
    /\ IF vartol # None
       THEN /\ terminate' = [value |-> 0]
            /\ tqueue' = [i \in Nodes |-> <<>>]
            /\ e_pc' = "first"
       ELSE /\ terminate' = None
            /\ tqueue' = tqueue
            /\ e_pc' = e_pc
    /\ all_v' = seedV(n, warmstartdual)
    /\ local_v' = seedV(n, warmstartdual)
    /\ pc' = [i \in Nodes |-> "top"]
    /\ dpc' = "pool"
    /\ UNCHANGED <<args, results, xbar, itr, itrs, local_r, v_temp, w_value, idx,
                   calls, seen, e_i, e_w, e_prev_w, e_varcounter, e_itr, e_itrs, e_hist>>

(***************************************************************************)
(* subproblem(i, ...): one action per statement that touches a queue or    *)
(* the shared terminate value; local statements ride with the next one.    *)
(***************************************************************************)
\* the peer k of the for loop the subproblem is in
peer(i) == Comms_Data[i][PhaseKey(pc[i])][idx[i]]

\* terminate is not None and terminate.value != 0
targetSet == terminate # None /\ terminate.value # 0

\* nextPos testing the target after every statement and leaving the loop
\* from inside the round
nextPosBreakMidRound(i) ==
    IF targetSet /\ terminate.value <= itr[i] THEN <<"done", 1>>
    ELSE IF pc[i] \notin {"prox", "update"} /\ idx[i] < Len(Comms_Data[i][PhaseKey(pc[i])])
    THEN <<pc[i], idx[i] + 1>>
    ELSE <<firstPhase(Comms_Data[i], PhaseNo(pc[i]) + 1), 1>>

\* the position after the current statement: the next peer of the same loop,
\* or the first statement of the following phases
nextPos(i) ==
    IF pc[i] \notin {"prox", "update"} /\ idx[i] < Len(Comms_Data[i][PhaseKey(pc[i])])
    THEN <<pc[i], idx[i] + 1>>
    ELSE <<firstPhase(Comms_Data[i], PhaseNo(pc[i]) + 1), 1>>

advance(i) ==
    /\ pc' = [pc EXCEPT ![i] = nextPos(i)[1]]
    /\ idx' = [idx EXCEPT ![i] = nextPos(i)[2]]

\* queue[a, b] with no such key: the process ends with a KeyError
keyError(i) ==
    /\ pc' = [pc EXCEPT ![i] = "KeyError"]
    /\ UNCHANGED <<chan, idx, local_r, v_temp>>

\* loopCond with <= for <
loopCondInclusive(i) == itr[i] <= itrs[i]

\* while itr < itrs
loopCond(i) == itr[i] < itrs[i]

\* if terminate.value < itr: break
stopNow(i) == terminate.value < itr[i]

\* targetLimit leaving the round limit as it was
targetLimitKept(i) == itrs[i]

\* itrs = terminate.value
targetLimit(i) == terminate.value

\* lines 168-175: the loop test, the read of the target, break or itrs = target
LoopTop(i) ==
    /\ pc[i] = "top"
    /\ IF loopCond(i)
       THEN IF targetSet
            THEN /\ saw' = [saw EXCEPT ![i] = TRUE]
                 /\ first_k' = [first_k EXCEPT ![i] = IF saw[i] THEN @ ELSE itr[i]]
                 /\ IF stopNow(i)
                    THEN /\ pc' = [pc EXCEPT ![i] = "done"]
                         /\ itrs' = itrs
                    ELSE /\ pc' = [pc EXCEPT ![i] = firstPhase(Comms_Data[i], 1)]
                         /\ itrs' = [itrs EXCEPT ![i] = targetLimit(i)]
            ELSE /\ pc' = [pc EXCEPT ![i] = firstPhase(Comms_Data[i], 1)]
                 /\ UNCHANGED <<itrs, seen>>
       ELSE /\ pc' = [pc EXCEPT ![i] = "done"]
            /\ UNCHANGED <<itrs, seen>>
    /\ idx' = [idx EXCEPT ![i] = 1]
    /\ UNCHANGED <<args, driver, chan, tqueue, terminate, monitor,
                   itr, local_v, local_r, v_temp, w_value, calls>>

\* the message put on a queue: w_value, and the round it was computed in
message(i) == [x |-> w_value[i], k |-> itr[i]]

\* local_r += L[i,k]*queue[k,i].get()
GetUpLQ(i) ==
    /\ pc[i] = "get_up_LQ"
    /\ LET k == peer(i)
       IN  IF <<k, i>> \in DOMAIN queue
           THEN /\ queue[<<k, i>>] # <<>>
                /\ queue' = [queue EXCEPT ![<<k, i>>] = Tail(@)]
                /\ nget' = [nget EXCEPT ![<<k, i>>] = @ + 1]
                /\ UNCHANGED nput
                /\ local_r' = [local_r EXCEPT ![i] = @ + L[i][k] * Head(queue[<<k, i>>]).x]
                /\ advance(i)
                /\ UNCHANGED v_temp
           ELSE keyError(i)
    /\ UNCHANGED <<args, driver, tqueue, terminate, monitor,
                   itr, itrs, local_v, w_value, calls, seen>>

\* temp = queue[k,i].get(); local_r += L[i,k]*temp; v_temp += W[i,k]*temp
GetUpBQ(i) ==
    /\ pc[i] = "get_up_BQ"
    /\ LET k == peer(i)
       IN  IF <<k, i>> \in DOMAIN queue
           THEN /\ queue[<<k, i>>] # <<>>
                /\ queue' = [queue EXCEPT ![<<k, i>>] = Tail(@)]
                /\ nget' = [nget EXCEPT ![<<k, i>>] = @ + 1]
                /\ UNCHANGED nput
                /\ local_r' = [local_r EXCEPT ![i] = @ + L[i][k] * Head(queue[<<k, i>>]).x]
                /\ v_temp' = [v_temp EXCEPT ![i] = @ + W[i][k] * Head(queue[<<k, i>>]).x]
                /\ advance(i)
           ELSE keyError(i)
    /\ UNCHANGED <<args, driver, tqueue, terminate, monitor,
                   itr, itrs, local_v, w_value, calls, seen>>

\* proxArg without the L contributions
proxArgNoR(i) == local_v[i]

\* the argument of the resolvent: local_v + local_r
proxArg(i) == local_v[i] + local_r[i]

\* resolvent.prox raises in this round of this subproblem: the process ends
\* with the exception
raises(i) == fault = <<i, itr[i]>>

\* w_value = resolvent.prox(local_v + local_r, alpha); with a monitor,
\* queue['terminate'][i].put(w_value)
Prox(i) ==
    /\ pc[i] = "prox"
    /\ IF raises(i)
       THEN /\ pc' = [pc EXCEPT ![i] = "raised"]
            /\ UNCHANGED <<w_value, calls, tqueue, idx>>
       ELSE /\ w_value' = [w_value EXCEPT ![i] = prox(i, proxArg(i), alpha)]
            /\ nprox' = [nprox EXCEPT ![i] = @ + 1]
            /\ x_hist' = [x_hist EXCEPT ![i] = Append(@, prox(i, proxArg(i), alpha))]
            /\ IF terminate # None
               THEN tqueue' = [tqueue EXCEPT ![i] =
                                  Append(@, [x |-> prox(i, proxArg(i), alpha), k |-> itr[i]])]
               ELSE tqueue' = tqueue
            /\ advance(i)
    /\ UNCHANGED <<args, driver, chan, terminate, monitor,
                   itr, itrs, local_v, local_r, v_temp, seen>>

\* Queue.put blocks while a queue of maxsize > 0 holds maxsize items
full(q) == maxsize > 0 /\ Len(q) >= maxsize

\* sendKey with the indices swapped
sendKeyReversed(i, k) == <<k, i>>

\* the key of the queue a subproblem puts on: queue[i,k]
sendKey(i, k) == <<i, k>>

\* queue[i,k].put(w_value) in the four send loops
put(i) ==
    /\ LET k == peer(i)
       IN  IF sendKey(i, k) \in DOMAIN queue
           THEN /\ ~full(queue[sendKey(i, k)])
                /\ queue' = [queue EXCEPT ![sendKey(i, k)] = Append(@, message(i))]
                /\ nput' = [nput EXCEPT ![sendKey(i, k)] = @ + 1]
                /\ UNCHANGED nget
                /\ advance(i)
                /\ UNCHANGED <<local_r, v_temp>>
           ELSE keyError(i)
    /\ UNCHANGED <<args, driver, tqueue, terminate, monitor,
                   itr, itrs, local_v, w_value, calls, seen>>

PutDownLQ(i) == pc[i] = "put_down_LQ" /\ put(i)

PutDownBQ(i) == pc[i] = "put_down_BQ" /\ put(i)

PutWQ(i) == pc[i] = "put_WQ" /\ put(i)

PutUpBQ(i) == pc[i] = "put_up_BQ" /\ put(i)

\* v_temp += W[i,k]*queue[k,i].get() in the two receive loops after the sends
getW(i) ==
    /\ LET k == peer(i)
       IN  IF <<k, i>> \in DOMAIN queue
           THEN /\ queue[<<k, i>>] # <<>>
                /\ queue' = [queue EXCEPT ![<<k, i>>] = Tail(@)]
                /\ nget' = [nget EXCEPT ![<<k, i>>] = @ + 1]
                /\ UNCHANGED nput
                /\ v_temp' = [v_temp EXCEPT ![i] = @ + W[i][k] * Head(queue[<<k, i>>]).x]
                /\ advance(i)
                /\ UNCHANGED local_r
           ELSE keyError(i)
    /\ UNCHANGED <<args, driver, tqueue, terminate, monitor,
                   itr, itrs, local_v, w_value, calls, seen>>

GetWQ(i) == pc[i] = "get_WQ" /\ getW(i)

GetDownBQ(i) == pc[i] = "get_down_BQ" /\ getW(i)

\* vUpdate without the node's own W[i,i]*w_value
vUpdateNoDiag(i) == gamma * v_temp[i]

\* v_update = gamma*(W[i,i]*w_value+v_temp)
vUpdate(i) == gamma * (W[i][i] * w_value[i] + v_temp[i])

\* local_v = local_v - v_update; v_temp.fill(0); local_r.fill(0); itr += 1
Update(i) ==
    /\ pc[i] = "update"
    /\ local_v' = [local_v EXCEPT ![i] = @ - vUpdate(i)]
    /\ v_temp' = [v_temp EXCEPT ![i] = 0]
    /\ local_r' = [local_r EXCEPT ![i] = 0]
    /\ itr' = [itr EXCEPT ![i] = @ + 1]
    /\ pc' = [pc EXCEPT ![i] = "top"]
    /\ UNCHANGED <<args, driver, chan, tqueue, terminate, monitor,
                   itrs, w_value, idx, calls, seen>>

(***************************************************************************)
(* parallelAlgorithm, lines 59-73: starmap returns when every subproblem   *)
(* has ended (it raises if one ended with an exception), then xbar, then   *)
(* the join of the monitor process.                                        *)
(***************************************************************************)
\* return {'x':w_value, 'v':local_v}
record(i) == [x |-> w_value[i], v |-> local_v[i]]

\* np.mean of the x's, kept as the pair (sum, count)
mean(res) == <<SumOver([i \in DOMAIN res |-> res[i].x], DOMAIN res), Cardinality(DOMAIN res)>>

Collect ==
    /\ dpc = "pool"
    /\ \A i \in Nodes : pc[i] \in {"done", "KeyError", "raised"}
    /\ IF \E i \in Nodes : pc[i] \in {"KeyError", "raised"}
       THEN /\ dpc' = "raised"
            /\ UNCHANGED <<results, xbar>>
       ELSE /\ results' = [i \in Nodes |-> record(i)]
            /\ xbar' = mean([i \in Nodes |-> record(i)])
            /\ dpc' = IF terminate # None THEN "join" ELSE "returned"
    /\ UNCHANGED <<args, L, Comms_Data, all_v, chan, tqueue, terminate, worker, monitor>>

Next ==
    \/ Start
    \/ \E i \in Nodes : LoopTop(i)
    \/ \E i \in Nodes : GetUpLQ(i)
    \/ \E i \in Nodes : GetUpBQ(i)
    \/ \E i \in Nodes : Prox(i)
    \/ \E i \in Nodes : PutDownLQ(i)
    \/ \E i \in Nodes : PutDownBQ(i)
    \/ \E i \in Nodes : PutWQ(i)
    \/ \E i \in Nodes : PutUpBQ(i)
    \/ \E i \in Nodes : GetWQ(i)
    \/ \E i \in Nodes : GetDownBQ(i)
    \/ \E i \in Nodes : Update(i)
    \/ Collect

Spec == Init /\ [][Next]_vars

(***************************************************************************)
(* evaluate(n, terminateQueue, terminate, vartol, itrs, ...): the monitor  *)
(* process, one action per blocking get plus one for the check that may    *)
(* write the target.                                                       *)
(***************************************************************************)
\* while itr < itrs, entered with prev_w = w.copy()
evalLoop(k, lim, w) ==
    IF k < lim
    THEN /\ e_pc' = "gets"
         /\ e_prev_w' = w
    ELSE /\ e_pc' = "done"
         /\ e_prev_w' = e_prev_w

\* evalLimit without the margin
evalLimitNoMargin(its) == its

\* itrs -= 10
evalLimit(its) == its - EvalMargin

\* lines 258-264: w.append(terminateQueue[i].get()) for each i, then
\* varcounter = 0; itr = 0; itrs -= 10 and the first loop test
EvalFirst ==
    /\ e_pc = "first"
    /\ tqueue[e_i] # <<>>
    /\ tqueue' = [tqueue EXCEPT ![e_i] = Tail(@)]
    /\ e_w' = Append(e_w, Head(tqueue[e_i]).x)
    /\ IF e_i < n - 1
       THEN /\ e_i' = e_i + 1
            /\ UNCHANGED <<e_pc, e_prev_w, e_varcounter, e_itr, e_itrs>>
       ELSE /\ e_i' = 0
            /\ e_varcounter' = 0
            /\ e_itr' = 0
            /\ e_itrs' = evalLimit(e_itrs)
            /\ evalLoop(0, evalLimit(e_itrs), Append(e_w, Head(tqueue[e_i]).x))
    /\ UNCHANGED <<args, driver, chan, terminate, worker, e_hist>>

\* lines 268-269: w[i] = terminateQueue[i].get()
EvalGet ==
    /\ e_pc = "gets"
    /\ tqueue[e_i] # <<>>
    /\ tqueue' = [tqueue EXCEPT ![e_i] = Tail(@)]
    /\ e_w' = [e_w EXCEPT ![e_i + 1] = Head(tqueue[e_i]).x]
    /\ IF e_i < n - 1
       THEN /\ e_i' = e_i + 1
            /\ e_pc' = e_pc
       ELSE /\ e_i' = 0
            /\ e_pc' = "check"
    /\ UNCHANGED <<args, driver, chan, terminate, worker,
                   e_prev_w, e_varcounter, e_itr, e_itrs, e_hist>>

\* delta = sum(np.linalg.norm(w[i]-prev_w[i]) for i in range(n))
delta ==
    SumOver([k \in 1 .. Len(e_w) |-> Abs(e_w[k] - e_prev_w[k])], 1 .. Len(e_w))

\* target with the sign of the offset wrong
targetBehind == e_itr - TargetAhead

\* terminate.value = itr + 10
target == e_itr + TargetAhead

\* streakAfter keeping the count over a round with delta >= vartol
streakAfterNoReset(d) == IF d < vartol[1] THEN e_varcounter + 1 ELSE e_varcounter

\* if delta < vartol: varcounter += 1 ... else: varcounter = 0
streakAfter(d) == IF d < vartol[1] THEN e_varcounter + 1 ELSE 0

\* lines 270-282: the streak counter, the write of the target and the break,
\* or itr += 1 and the next loop test
EvalCheck ==
    /\ e_pc = "check"
    /\ e_varcounter' = streakAfter(delta)
    /\ e_hist' = Append(e_hist, delta)
    /\ IF delta < vartol[1] /\ streakAfter(delta) >= StreakNeeded
       THEN /\ terminate' = [terminate EXCEPT !.value = target]
            /\ e_pc' = "done"
            /\ UNCHANGED <<e_itr, e_prev_w>>
       ELSE /\ e_itr' = e_itr + 1
            /\ evalLoop(e_itr + 1, e_itrs, e_w)
            /\ UNCHANGED terminate
    /\ UNCHANGED <<args, driver, chan, tqueue, worker, e_i, e_w, e_itrs>>

\* parallelAlgorithm, lines 66-68: evalProcess.join()
Join ==
    /\ dpc = "join"
    /\ e_pc = "done"
    /\ dpc' = "returned"
    /\ UNCHANGED <<args, L, Comms_Data, all_v, results, xbar,
                   chan, tqueue, terminate, worker, monitor>>

\* the itrs of a monitored run: the least for which a target can be written,
\* and up to MonSlack more
MonItrs == (StreakNeeded + EvalMargin) .. (StreakNeeded + EvalMargin + MonSlack)
\* vartol = 1: a round counts towards the streak when no sample moved
VartolSet == {<<1>>}
\* gamma of the runs of MonItrs rounds (with gamma = 2 one of them diverges
\* geometrically)
MonGammaSet == {1}

\* runs of MonItrs rounds on MonNodeCounts nodes, with vartol set or None
MonInit ==
    \E nn \in MonNodeCounts, its \in MonItrs, vt \in VartolSet \cup {None} :
       InitWith(nn, its, vt, MonGammaSet)

MonNext ==
    \/ Next
    \/ EvalFirst
    \/ EvalGet
    \/ EvalCheck
    \/ Join

MonSpec == MonInit /\ [][MonNext]_vars

\* monitored runs of one round more than the least of MonItrs: the monitor
\* has a round left after a streak that a first round with delta >= vartol
\* made start late
StreakItrs == {StreakNeeded + EvalMargin + 1}

StreakInit ==
    \E nn \in MonNodeCounts, its \in StreakItrs, vt \in VartolSet :
       InitWith(nn, its, vt, MonGammaSet)

StreakSpec == StreakInit /\ [][MonNext]_vars

\* monitored runs of few rounds: none, one, as many as the monitor's margin,
\* and one more (the monitor's loop then has one round)
ShortItrs == {0, 1, EvalMargin, EvalMargin + 1}

ShortInit ==
    \E nn \in MonNodeCounts, its \in ShortItrs, vt \in VartolSet :
       InitWith(nn, its, vt, MonGammaSet)

ShortSpec == ShortInit /\ [][MonNext]_vars

\* the processes are scheduled by the operating system: while some process
\* can take a step, one does
FairSpec == Spec /\ WF_vars(Next)

\* runs without a monitor on queues built with maxsize Capacity, of the
\* fewest rounds in which a put can find its queue full
BoundedInit ==
    \E nn \in NodeCounts :
       InitArgs(nn, Capacity + 1, None, GammaSet, WSet(nn), ZMats(nn), Capacity, None)

BoundedSpec == BoundedInit /\ [][Next]_vars /\ WF_vars(Next)

\* the same runs on the queues the code builds (maxsize 0): runs long enough
\* for a sender to put more than Capacity messages
LongInit ==
    \E nn \in NodeCounts :
       InitArgs(nn, Capacity + 1, None, GammaSet, WSet(nn), ZMats(nn), 0, None)

LongSpec == LongInit /\ [][Next]_vars

\* a W with any entries off the diagonal, symmetric or not, and zero row sums
anyW(nn, w) ==
    [i \in 0 .. (nn - 1) |->
        [j \in 0 .. (nn - 1) |->
            IF i # j THEN w[<<i, j>>]
            ELSE -SumOver([k \in 0 .. (nn - 1) |-> IF k # i THEN w[<<i, k>>] ELSE 0],
                          0 .. (nn - 1))]]

\* a Z with the given entries below the diagonal and 0 on and above it
lowerZ(nn, z) ==
    [i \in 0 .. (nn - 1) |-> [j \in 0 .. (nn - 1) |-> IF i > j THEN z[<<i, j>>] ELSE 0]]

OffPairs(nn) == {p \in (0 .. (nn - 1)) \X (0 .. (nn - 1)) : p[1] # p[2]}
AnyWSet(nn) == {anyW(nn, w) : w \in [OffPairs(nn) -> WeightSet]}
LowerZSet(nn) == {lowerZ(nn, z) : z \in [LowerPairs(nn) -> ZSet]}

\* calls without a monitor whose W need not be symmetric, with a strictly
\* lower triangular Z
SetupInit ==
    \E nn \in MonNodeCounts, its \in 0 .. MaxItrs :
       InitArgs(nn, its, None, GammaSet, AnyWSet(nn), LowerZSet(nn), 0, None)

SetupSpec == SetupInit /\ [][Next]_vars

\* runs without a monitor in which the resolvent of one node raises in one
\* of the rounds
FailInit ==
    \E nn \in MonNodeCounts, its \in 1 .. MaxItrs :
       \E i \in 0 .. (nn - 1), k \in 0 .. (its - 1) :
          InitArgs(nn, its, None, GammaSet, WSet(nn), ZMats(nn), 0, <<i, k>>)

FailSpec == FailInit /\ [][Next]_vars

(***************************************************************************)
(* serialAlgorithm, lines 57-85, with the same arguments.  The run is the  *)
(* one compared with a run without a monitor: vartol, objtol and objective *)
(* are None.                                                               *)
(***************************************************************************)
\* convergence.check(all_x) of a ConvergenceChecker built with no tolerance:
\* the run ends on the iteration count alone
converged(st) == FALSE

\* lines 61-68: for i in range(n): y = all_v[i] - sum(Z[i,j]*all_x[j] for j in range(i));
\* all_x[i] = resolvent.prox(y, alpha)
RECURSIVE serialSweep(_, _, _)
serialSweep(i, x, v) ==
    IF i >= n THEN x
    ELSE LET y == v[i] - SumOver([j \in 0 .. (i - 1) |-> Z[i][j] * x[j]], 0 .. (i - 1))
         IN  serialSweep(i + 1, [x EXCEPT ![i] = prox(i, y, alpha)], v)

\* lines 70-72: wx[i] = sum(W[i,j]*all_x[j] for j in range(n)); all_v[i] -= gamma*wx[i]
serialConsensus(x, v) ==
    [i \in Nodes |-> v[i] - gamma * SumOver([j \in Nodes |-> W[i][j] * x[j]], Nodes)]

\* one pass of the for itr loop
serialIteration(st) ==
    LET x == serialSweep(0, st.x, st.v)
    IN  [x |-> x, v |-> serialConsensus(x, st.v), stop |-> converged(st)]

\* all_x and all_v after k passes, from all_x = 0 and the seeded all_v
RECURSIVE serialAlgorithm(_)
serialAlgorithm(k) ==
    IF k = 0
    THEN [x |-> [i \in Nodes |-> 0], v |-> seedV(n, warmstartdual), stop |-> FALSE]
    ELSE LET st == serialAlgorithm(k - 1)
         IN  IF st.stop THEN st ELSE serialIteration(st)

(***************************************************************************)
(* Properties.                                                             *)
(***************************************************************************)
AllDone == \A i \in Nodes : pc[i] = "done"

\* the phases of a round that follow the resolvent
AfterProx ==
    {"put_down_LQ", "put_down_BQ", "put_WQ", "put_up_BQ", "get_WQ", "get_down_BQ", "update"}

\* the elements of a peer list
Range(q) == {q[k] : k \in 1 .. Len(q)}

Keys == {"WQ", "up_LQ", "down_LQ", "up_BQ", "down_BQ"}

\* C1: without a monitor every interleaving of the subproblems gives node i,
\* in every round k, the x_i and v_i of the serial recurrence after k passes,
\* and the records parallelAlgorithm returns are those of serialAlgorithm.
ParallelEqualsSerial ==
    /\ \A i \in Nodes :
          LET before == serialAlgorithm(itr[i])
              after == serialAlgorithm(itr[i] + 1)
          IN  /\ pc[i] \in {"top", "done"} =>
                    local_v[i] = before.v[i] /\ w_value[i] = before.x[i]
              /\ pc[i] \in AfterProx =>
                    local_v[i] = before.v[i] /\ w_value[i] = after.x[i]
              /\ pc[i] = "update" =>
                    local_v[i] - vUpdate(i) = after.v[i]
    /\ dpc = "returned" =>
          \A i \in Nodes : results[i] = [x |-> serialAlgorithm(itrs_arg).x[i],
                                         v |-> serialAlgorithm(itrs_arg).v[i]]

\* a run of MaxItrs rounds has returned, with pre-resolvent and post-resolvent
\* receives in it and iterates that moved
WitnessParallelEqualsSerial ==
    /\ dpc = "returned"
    /\ itrs_arg = MaxItrs
    /\ \E i \in Nodes : Comms_Data[i].up_BQ # <<>>
    /\ \E i \in Nodes : Comms_Data[i].up_LQ # <<>>
    /\ \E i \in Nodes : results[i].v # all_v[i]

\* C5: without a monitor a subproblem returns only after exactly itrs rounds:
\* itrs resolvent calls and itrs consensus updates.
ExactlyItrsRounds ==
    \A i \in Nodes :
       /\ pc[i] = "done" => (terminate = None => itr[i] = itrs_arg /\ nprox[i] = itrs_arg)
       /\ terminate = None => itr[i] <= nprox[i] /\ nprox[i] <= itr[i] + 1

WitnessExactlyItrsRounds ==
    /\ AllDone
    /\ terminate = None
    /\ itrs_arg = MaxItrs
    /\ \A i \in Nodes : nprox[i] = MaxItrs

\* how often the node other appears in the five lists of node
timesListed(node, other) ==
    SumOver([key \in Keys |->
                Cardinality({k \in 1 .. Len(Comms_Data[node][key]) :
                                Comms_Data[node][key][k] = other})],
            Keys)

\* the one list the classification table puts the lower node j in at the
\* higher node i, and i in at j
listedAs(i, j, keyAtI, keyAtJ) ==
    /\ timesListed(i, j) = 1
    /\ timesListed(j, i) = 1
    /\ j \in Range(Comms_Data[i][keyAtI])
    /\ i \in Range(Comms_Data[j][keyAtJ])

\* C7: requiredQueues lists every coupled pair in exactly one of the five
\* lists at each end, as the classification table says, lists no uncoupled
\* pair, and creates every channel the lists make a subproblem use.
PlannerComplete ==
    dpc # "call" =>
       /\ \A i, j \in Nodes :
             i > j =>
                IF W[i][j] # 0 /\ L[i][j] # 0 THEN listedAs(i, j, "up_BQ", "down_BQ")
                ELSE IF W[i][j] # 0 THEN listedAs(i, j, "WQ", "WQ")
                ELSE IF L[i][j] # 0 THEN listedAs(i, j, "up_LQ", "down_LQ")
                ELSE timesListed(i, j) = 0 /\ timesListed(j, i) = 0
       /\ \A i \in Nodes : timesListed(i, i) = 0
       /\ \A i \in Nodes :
             /\ \A key \in {"up_LQ", "up_BQ", "WQ", "down_BQ"} :
                   \A k \in Range(Comms_Data[i][key]) : <<k, i>> \in DOMAIN queue
             /\ \A key \in {"down_LQ", "down_BQ", "WQ", "up_BQ"} :
                   \A k \in Range(Comms_Data[i][key]) : <<i, k>> \in DOMAIN queue

\* the planner has run on matrices with a pure-W pair, an L-only pair and a
\* pair coupled by both
WitnessPlannerComplete ==
    /\ dpc = "pool"
    /\ \E i \in Nodes : Comms_Data[i].WQ # <<>>
    /\ \E i \in Nodes : Comms_Data[i].up_LQ # <<>>
    /\ \E i \in Nodes : Comms_Data[i].down_BQ # <<>>

\* C8 as stated: a channel (i, j) exists iff W[i,j] # 0 or L[i,j] # 0 or L[j,i] # 0.
ChannelIffCoupled ==
    dpc # "call" =>
       \A i, j \in Nodes :
          i # j => (<<i, j>> \in DOMAIN queue <=> (W[i][j] # 0 \/ L[i][j] # 0 \/ L[j][i] # 0))

\* C8, amended: a channel (s, r) exists iff W[s,r] # 0 or L[r,s] # 0: an
\* L-only pair gets the one channel from the lower to the higher node.
ChannelIffNeeded ==
    dpc # "call" =>
       /\ \A s, r \in Nodes :
             <<s, r>> \in DOMAIN queue <=> (s # r /\ (W[s][r] # 0 \/ L[r][s] # 0))
       /\ DOMAIN queue \subseteq Nodes \X Nodes

\* the planner has run on matrices with an L-only pair and an uncoupled pair
WitnessChannelIffNeeded ==
    /\ dpc = "pool"
    /\ \E i, j \in Nodes : i > j /\ L[i][j] # 0 /\ W[i][j] = 0
                           /\ <<j, i>> \in DOMAIN queue /\ <<i, j>> \notin DOMAIN queue
    /\ \E i, j \in Nodes : i > j /\ L[i][j] = 0 /\ W[i][j] = 0
    /\ \E i, j \in Nodes : i > j /\ W[i][j] # 0

\* C9: a step puts a message on channel (s, r) only if W[s,r] # 0 or
\* L[r,s] # 0; between uncoupled nodes nothing is ever sent.
SparsityHonored ==
    [][\A s, r \in Nodes :
          (/\ <<s, r>> \in DOMAIN queue
           /\ <<s, r>> \in DOMAIN queue'
           /\ Len(queue'[<<s, r>>]) > Len(queue[<<s, r>>]))
          => (W[s][r] # 0 \/ L[r][s] # 0)]_vars

\* a message is in flight on an L-only channel while another pair is uncoupled
WitnessSparsityHonored ==
    /\ dpc = "pool"
    /\ \E s, r \in Nodes : /\ <<s, r>> \in DOMAIN queue
                           /\ queue[<<s, r>>] # <<>>
                           /\ W[s][r] = 0
    /\ \E i, j \in Nodes : i > j /\ L[i][j] = 0 /\ W[i][j] = 0

\* W has zero row sums and is symmetric, and the seeded v sums to zero
liftPremise ==
    /\ \A i, j \in Nodes : W[i][j] = W[j][i]
    /\ \A i \in Nodes : SumOver(W[i], Nodes) = 0
    /\ SumOver(seedV(n, warmstartdual), Nodes) = 0

\* C10: when W is symmetric with zero row sums and the v0 sum to zero, the
\* v_i sum to zero whenever all subproblems have completed the same number of
\* rounds, and after every pass of the serial run (which the arguments alone
\* determine: it is evaluated once per run, in the state of the call).
LiftSumZero ==
    liftPremise =>
       /\ (\A i \in Nodes : pc[i] \in {"top", "done"} /\ itr[i] = itr[0])
             => SumOver(local_v, Nodes) = 0
       /\ dpc = "call" =>
             \A k \in 0 .. itrs_arg : SumOver(serialAlgorithm(k).v, Nodes) = 0

\* all subproblems stand at the boundary after round MaxItrs, with v moved
WitnessLiftSumZero ==
    /\ liftPremise
    /\ AllDone
    /\ itrs_arg = MaxItrs
    /\ \A i \in Nodes : itr[i] = MaxItrs
    /\ \E i \in Nodes : local_v[i] # all_v[i]
    /\ \E i \in Nodes : local_v[i] # 0

\* the receive loops of a round
GetPhases == {"get_up_LQ", "get_up_BQ", "get_WQ", "get_down_BQ"}

\* C2: without a monitor, under fair scheduling, every subproblem ends after
\* all its rounds and parallelAlgorithm returns: no get blocks forever.
NoMonitorTerminates ==
    <>(/\ \A i \in Nodes : pc[i] = "done" /\ itr[i] = itrs_arg
       /\ dpc = "returned")

\* a subproblem waits in a get on an empty queue, in its last round, in a run
\* whose lists include pre-resolvent and post-resolvent receives
WitnessNoMonitorTerminates ==
    /\ terminate = None
    /\ itrs_arg = MaxItrs
    /\ \E i \in Nodes : /\ pc[i] \in GetPhases
                        /\ itr[i] = MaxItrs - 1
                        /\ queue[<<peer(i), i>>] = <<>>
    /\ \E i \in Nodes : Comms_Data[i].up_LQ # <<>>
    /\ \E i \in Nodes : Comms_Data[i].down_BQ # <<>>

\* subproblem i waits in a get for a message of a peer that has returned
blockedOnExited(i) ==
    /\ pc[i] \in GetPhases
    /\ pc[peer(i)] = "done"
    /\ queue[<<peer(i), i>>] = <<>>

\* C3: with the monitor, no subproblem is left blocked in a get on a queue
\* whose sender has already returned.
NoneBlockedOnExited ==
    \A i \in Nodes : ~blockedOnExited(i)

\* C4: a subproblem that has seen the target t returns having completed
\* exactly t rounds.
StopsAtTarget ==
    \A i \in Nodes : (pc[i] = "done" /\ saw[i]) => itr[i] = terminate.value

\* C6: no subproblem executes more than the caller's itrs rounds, whatever
\* target the monitor writes and whenever it is seen.
AtMostItrsRounds ==
    \A i \in Nodes : itr[i] <= itrs_arg /\ nprox[i] <= itrs_arg

\* a subproblem that replaced its round limit by the target has returned
WitnessAtMostItrsRounds ==
    \E i \in Nodes : /\ pc[i] = "done"
                     /\ saw[i]
                     /\ itrs[i] = terminate.value
                     /\ itrs[i] < itrs_arg

\* the v0 of node i the caller asked for
seeded(i) == IF warmstartdual = None THEN 0 ELSE warmstartdual[i]

\* C11: without a monitor and with itrs = 0 a subproblem makes no prox call,
\* no put and no get, and returns as v its seeded v0 (0, plus warmstartdual[i]
\* when a dual warm start is given); and the v0 seeded from the v a run
\* returned, given as dual warm start, is that v.
ZeroItrsReturnsSeed ==
    /\ (vartol = None /\ itrs_arg = 0) =>
          /\ \A i \in Nodes :
                /\ nprox[i] = 0
                /\ pc[i] \in {"idle", "top", "done"}
                /\ dpc # "call" => local_v[i] = seeded(i)
          /\ \A key \in DOMAIN queue :
                nput[key] = 0 /\ nget[key] = 0 /\ queue[key] = <<>>
          /\ dpc = "returned" =>
                \A i \in Nodes : results[i].v = seeded(i) /\ results[i].x = 0
    /\ (vartol = None /\ dpc = "returned") =>
          seedV(n, [i \in Nodes |-> results[i].v]) = [i \in Nodes |-> results[i].v]

\* a run of 0 rounds with a dual warm start has returned, on a plan with
\* channels
WitnessZeroItrsReturnsSeed ==
    /\ dpc = "returned"
    /\ itrs_arg = 0
    /\ vartol = None
    /\ warmstartdual # None
    /\ results[0].v = 1
    /\ DOMAIN queue # {}

\* the send loops of a round
PutPhases == {"put_down_LQ", "put_down_BQ", "put_WQ", "put_up_BQ"}

\* C12: on queues of maxsize 2, where a put blocks while its queue is full,
\* a run without a monitor still ends: every subproblem completes all its
\* rounds (no put blocks forever), parallelAlgorithm returns, and the records
\* returned are those of the run on unbounded queues (the serial recurrence,
\* by C1).
BoundedRunUnchanged ==
    <>(/\ dpc = "returned"
       /\ \A i \in Nodes :
             /\ pc[i] = "done"
             /\ itr[i] = itrs_arg
             /\ results[i] = [x |-> serialAlgorithm(itrs_arg).x[i],
                              v |-> serialAlgorithm(itrs_arg).v[i]])

\* a subproblem stands in a put on a queue that holds maxsize messages
WitnessBoundedRunUnchanged ==
    /\ maxsize = Capacity
    /\ \E i \in Nodes : /\ pc[i] \in PutPhases
                        /\ Len(queue[<<i, peer(i)>>]) = maxsize
                        /\ full(queue[<<i, peer(i)>>])

\* the arguments break a requirement on the matrices or the shapes
setupError ==
    \/ \E i, j \in DOMAIN W : W[i][j] # W[j][i]
    \/ \E i, j \in DOMAIN Z : j >= i /\ Z[i][j] # 0
    \/ shape0(W) # n
    \/ shape0(Z) # n
    \/ shape0(data) # n
    \/ warmstartdual # None /\ shape0(warmstartdual) # n

\* C13: when the arguments break a requirement, parallelAlgorithm starts no
\* subproblem and no monitor process, and never returns a result.
SetupErrorsAbort ==
    setupError =>
       /\ \A i \in Nodes : pc[i] = "idle"
       /\ e_pc = "absent"
       /\ dpc \notin {"pool", "join", "returned"}

\* subproblem i waits in a get for a message of a peer whose process has
\* ended with an exception; nothing else ever puts on that queue, and the
\* driver acts only when every subproblem has ended
blockedOnFailed(i) ==
    /\ pc[i] \in GetPhases
    /\ pc[peer(i)] = "raised"
    /\ queue[<<peer(i), i>>] = <<>>

\* C14: when the resolvent of a subproblem raises, no other subproblem is
\* left blocked in a get on a queue of the failed one, with the driver still
\* waiting in the pool.
WorkerFailureAborts ==
    \A i \in Nodes : ~(blockedOnFailed(i) /\ dpc = "pool")

\* C15: a subproblem that at the top of round k reads a target t > 0 with
\* k >= t leaves the loop there: its step from the loop top ends it, and no
\* get, prox or put of round k follows.
StopsAtOrPastTarget ==
    [][\A i \in Nodes :
          (/\ pc[i] = "top"
           /\ targetSet
           /\ terminate.value > 0
           /\ itr[i] >= terminate.value
           /\ pc'[i] # pc[i])
          => pc'[i] = "done"]_vars

\* C16: a subproblem that first reads a target t > 0 at the top of a round
\* k < t takes t as its round limit, keeps it at every later loop top, and
\* ends having completed exactly the rounds 0 .. t-1.
ContinuesToTarget ==
    \A i \in Nodes :
       (first_k[i] >= 0 /\ first_k[i] < terminate.value) =>
          /\ itrs[i] = terminate.value
          /\ itr[i] <= terminate.value
          /\ nprox[i] <= terminate.value
          /\ pc[i] = "done" => itr[i] = terminate.value /\ nprox[i] = terminate.value

\* a subproblem that first read the target with rounds still to go, and
\* read it again at later loop tops, has ended
WitnessContinuesToTarget ==
    \E i \in Nodes : /\ pc[i] = "done"
                     /\ first_k[i] >= 0
                     /\ first_k[i] + 1 < terminate.value
                     /\ itr[i] = terminate.value

\* the peers whose message a subproblem receives before its resolvent, and
\* those whose message it receives after its sends
upPeers(i) == Range(Comms_Data[i].up_LQ) \cup Range(Comms_Data[i].up_BQ)
downPeers(i) == Range(Comms_Data[i].WQ) \cup Range(Comms_Data[i].down_BQ)

\* C17: subproblem i has made its prox call of round k only if every peer j
\* of up_LQ(i) and up_BQ(i), the nodes with L[i,j] # 0, has made its prox
\* call of round k: i is never ahead of j in prox calls.
ProxAfterUpPeers ==
    dpc # "call" =>
       \A i \in Nodes :
          /\ upPeers(i) = {j \in Nodes : L[i][j] # 0}
          /\ \A j \in upPeers(i) : nprox[i] <= nprox[j]

\* a subproblem with peers in up_LQ and in up_BQ has made the prox call of
\* its last round, a peer having made no more prox calls than it
WitnessProxAfterUpPeers ==
    /\ dpc = "pool"
    /\ \E i \in Nodes :
          /\ Comms_Data[i].up_LQ # <<>>
          /\ Comms_Data[i].up_BQ # <<>>
          /\ nprox[i] = MaxItrs
          /\ \E j \in upPeers(i) : nprox[j] = nprox[i]

\* C18: subproblem i has completed its consensus update of round k only if
\* every peer j of WQ(i) and down_BQ(i), the nodes coupled to i through W
\* from which i receives nothing before its resolvent, has made its prox
\* call of round k.
UpdateAfterDownPeers ==
    dpc # "call" =>
       \A i \in Nodes :
          /\ downPeers(i) = {j \in Nodes : j # i /\ W[i][j] # 0 /\ L[i][j] = 0}
          /\ \A j \in downPeers(i) : itr[i] <= nprox[j]

\* a subproblem with a peer in WQ and one in down_BQ has completed the
\* update of its last round
WitnessUpdateAfterDownPeers ==
    /\ dpc = "pool"
    /\ \E i \in Nodes :
          /\ Comms_Data[i].WQ # <<>>
          /\ Comms_Data[i].down_BQ # <<>>
          /\ itr[i] = MaxItrs
          /\ \E j \in downPeers(i) : nprox[j] = itr[i] /\ pc[j] # "done"

\* a subproblem stands between two rounds
atBoundary(i) == pc[i] \in {"top", "done"}

\* C19: on every channel (s, r) of the plan the sender puts one message and
\* the receiver gets one message in each round (one per direction for a pair
\* of up_BQ/down_BQ, used for the L and the W contribution both), the message
\* got in round k being the one put in round k; whenever all subproblems
\* have completed the same number K of rounds, every channel has carried K
\* messages and is empty.
ChannelBalance ==
    /\ \A key \in DOMAIN queue :
          LET s == key[1]
              r == key[2]
          IN  /\ nput[key] - nget[key] = Len(queue[key])
              /\ nput[key] \in {itr[s], itr[s] + 1}
              /\ nget[key] \in {itr[r], itr[r] + 1}
              /\ atBoundary(s) => nput[key] = itr[s]
              /\ atBoundary(r) => nget[key] = itr[r]
              /\ \A m \in 1 .. Len(queue[key]) : queue[key][m].k = nget[key] + m - 1
    /\ (\A i \in Nodes : atBoundary(i) /\ itr[i] = itr[0]) =>
          \A key \in DOMAIN queue :
             nput[key] = itr[0] /\ nget[key] = itr[0] /\ queue[key] = <<>>

\* all subproblems have completed MaxItrs rounds on a plan with a pair
\* coupled through both W and L, a pure-W pair and an L-only pair
WitnessChannelBalance ==
    /\ AllDone
    /\ \A i \in Nodes : itr[i] = MaxItrs
    /\ \E i \in Nodes : Comms_Data[i].up_BQ # <<>>
    /\ \E i \in Nodes : Comms_Data[i].WQ # <<>>
    /\ \E i \in Nodes : Comms_Data[i].up_LQ # <<>>
    /\ \A key \in DOMAIN queue : nput[key] = MaxItrs /\ nget[key] = MaxItrs

\* C20 as stated: no channel, L-only channels included, ever holds more than
\* 2 unread messages.
OccupancyAtMostTwo ==
    \A key \in DOMAIN queue : Len(queue[key]) <= 2

\* C20, amended: a channel (s, r) of a pair coupled through W never holds
\* more than 2 unread messages; an L-only channel holds at most as many as
\* the rounds of the run, and the sender is no more rounds ahead than that.
OccupancyByCoupling ==
    \A key \in DOMAIN queue :
       LET s == key[1]
           r == key[2]
       IN  /\ W[s][r] # 0 => Len(queue[key]) <= 2 /\ nput[key] - nget[key] <= 2
           /\ Len(queue[key]) <= itrs_arg

\* the sender of an L-only channel has put the messages of all rounds, more
\* than 2, and none is read yet, while a channel of a pair coupled through W
\* holds 2
WitnessOccupancyByCoupling ==
    /\ itrs_arg > 2
    /\ \E key \in DOMAIN queue :
          /\ W[key[1]][key[2]] = 0
          /\ L[key[2]][key[1]] # 0
          /\ Len(queue[key]) = itrs_arg
    /\ \E key \in DOMAIN queue :
          /\ W[key[1]][key[2]] # 0
          /\ Len(queue[key]) = 2

\* the rounds at the end of the monitor's history whose delta was below
\* vartol, back to the last round with delta >= vartol
RECURSIVE trailingLows(_)
trailingLows(h) ==
    IF h = <<>> THEN 0
    ELSE IF h[Len(h)] < vartol[1] THEN 1 + trailingLows(SubSeq(h, 1, Len(h) - 1))
    ELSE 0

\* C21: the monitor's counter is the number of consecutive rounds with delta
\* below vartol up to the present one (a round with delta >= vartol makes it
\* 0); the target is written only in a round k that is the 10th of such a
\* run, the value written is k + 10, and the monitor has then ended; while
\* no target is written no 10 such rounds have passed.
StreakRule ==
    terminate # None =>
       /\ e_varcounter = trailingLows(e_hist)
       /\ e_pc \in {"gets", "check"} => Len(e_hist) = e_itr
       /\ terminate.value # 0 =>
             /\ trailingLows(e_hist) = 10
             /\ e_itr = Len(e_hist) - 1
             /\ terminate.value = e_itr + 10
             /\ e_pc = "done"
       /\ terminate.value = 0 =>
             \A m \in 0 .. Len(e_hist) : trailingLows(SubSeq(e_hist, 1, m)) < 10

\* the target was written in the 10th round of a streak that started after
\* a round with delta >= vartol
WitnessStreakRule ==
    /\ terminate # None
    /\ terminate.value # 0
    /\ \E m \in 1 .. Len(e_hist) : e_hist[m] >= vartol[1]
    /\ Len(e_hist) > 10

\* C22: with the monitor enabled, for every itrs >= 0, the monitor never
\* waits for a sample that no subproblem will produce: once the subproblems
\* have ended and the driver stands in the join, the monitor is not blocked
\* in a get on an empty telemetry queue.
MonitorNeverStarved ==
    ~(/\ dpc = "join"
      /\ e_pc \in {"first", "gets"}
      /\ tqueue[e_i] = <<>>)

\* C23: the shared value is created as 0; only the monitor's check changes
\* it, in a step of the monitor that ends the monitor (so at most once) and
\* that no subproblem takes part in; it changes from 0 to a positive value,
\* and a positive value never changes again.
FlagDiscipline ==
    [][/\ (terminate = None /\ terminate' # None) => terminate'.value = 0
       /\ terminate # None =>
             /\ terminate' # None
             /\ terminate'.value # terminate.value =>
                   /\ terminate.value = 0
                   /\ terminate'.value > 0
                   /\ e_pc = "check"
                   /\ e_pc' = "done"
                   /\ UNCHANGED worker]_vars

\* the target is written and a subproblem has read it at a loop top and gone
\* on, another having ended
WitnessFlagDiscipline ==
    /\ terminate # None
    /\ terminate.value > 0
    /\ e_pc = "done"
    /\ \E i \in Nodes : saw[i] /\ pc[i] \notin {"top", "done"}
    /\ \E i \in Nodes : saw[i] /\ pc[i] = "done"

\* the statements of a round
InRound == GetPhases \cup PutPhases \cup {"prox", "update"}

\* subproblem i has made the prox call, every put and every get of its
\* current round
roundComplete(i) ==
    /\ nprox[i] = itr[i] + 1
    /\ \A key \in DOMAIN queue :
          /\ key[1] = i => nput[key] = itr[i] + 1
          /\ key[2] = i => nget[key] = itr[i] + 1

\* C24: a subproblem ends only by a step from its loop top, and reads the
\* target (its round limit changes, the target is seen) only there; a step
\* taken inside a round leads to a later statement of the round or, from the
\* consensus update with every put and get of the round made, to the next
\* loop top.
ExitsOnlyAtBoundary ==
    [][\A i \in Nodes :
          /\ (pc'[i] = "done" /\ pc[i] # "done") => pc[i] = "top"
          /\ pc[i] # "top" => (itrs'[i] = itrs[i] /\ saw'[i] = saw[i])
          /\ (pc[i] \in InRound /\ pc'[i] # pc[i]) =>
                /\ pc'[i] \in InRound \cup {"top"}
                /\ pc'[i] = "top" =>
                      pc[i] = "update" /\ roundComplete(i) /\ itr'[i] = itr[i] + 1]_vars

\* a round begun before the target was written is being completed with the
\* target already set, another subproblem having ended at a loop top
WitnessExitsOnlyAtBoundary ==
    /\ terminate # None
    /\ terminate.value > 0
    /\ \E i \in Nodes : /\ pc[i] = "update"
                        /\ ~saw[i]
                        /\ Comms_Data[i].WQ # <<>>
    /\ \E i \in Nodes : pc[i] = "done" /\ saw[i]

\* the channels subproblem i puts on
outKeys(i) == {key \in DOMAIN queue : key[1] = i}

\* the peers subproblem i sends to
sendPeers(i) ==
    Range(Comms_Data[i].down_LQ) \cup Range(Comms_Data[i].down_BQ)
       \cup Range(Comms_Data[i].WQ) \cup Range(Comms_Data[i].up_BQ)

\* C25: within its current round, subproblem i has made its prox call only
\* with the message of every up_LQ and up_BQ peer received, has put a message
\* (to its down_LQ, down_BQ, WQ and up_BQ peers, and no others) only with the
\* prox call made, and has received from a WQ or down_BQ peer only with all
\* its puts of the round made.
PhaseOrder ==
    dpc # "call" =>
       \A i \in Nodes :
          LET proxDone == nprox[i] = itr[i] + 1
              sentAll == \A key \in outKeys(i) : nput[key] = itr[i] + 1
          IN  /\ {key[2] : key \in outKeys(i)} = sendPeers(i)
              /\ proxDone => \A j \in upPeers(i) : nget[<<j, i>>] = itr[i] + 1
              /\ \A key \in outKeys(i) : nput[key] = itr[i] + 1 => proxDone
              /\ \A j \in downPeers(i) : nget[<<j, i>>] = itr[i] + 1 => sentAll

\* in its last round a subproblem with peers to receive from before the
\* resolvent, peers in up_BQ to send to and peers in WQ has received from a
\* WQ peer
WitnessPhaseOrder ==
    /\ dpc = "pool"
    /\ \E i \in Nodes :
          /\ Comms_Data[i].up_BQ # <<>>
          /\ Comms_Data[i].WQ # <<>>
          /\ itr[i] = itrs_arg - 1
          /\ pc[i] = "update"
          /\ \E j \in downPeers(i) : nget[<<j, i>>] = itr[i] + 1

\* the step is one of subproblem i alone
stepOf(i) ==
    /\ <<pc'[i], idx'[i]>> # <<pc[i], idx[i]>>
    /\ \A j \in Nodes \ {i} : pc'[j] = pc[j] /\ idx'[j] = idx[j]

\* C26: a step that appends to the queue keyed (s, r) is a put of subproblem
\* s to its peer r, a step that removes from it is a get of subproblem r from
\* its peer s, and no step changes a queue otherwise: no queue is written by
\* its reader or read by its writer.
ChannelRoles ==
    [][\A key \in DOMAIN queue \cap DOMAIN queue' :
          /\ Len(queue'[key]) > Len(queue[key]) =>
                /\ pc[key[1]] \in PutPhases
                /\ peer(key[1]) = key[2]
                /\ stepOf(key[1])
                /\ queue'[key] = Append(queue[key], message(key[1]))
          /\ Len(queue'[key]) < Len(queue[key]) =>
                /\ pc[key[2]] \in GetPhases
                /\ peer(key[2]) = key[1]
                /\ stepOf(key[2])
                /\ queue'[key] = Tail(queue[key])
          /\ Len(queue'[key]) = Len(queue[key]) => queue'[key] = queue[key]]_vars

\* both queues of a pair coupled through W hold a message, and the one
\* queue of an L-only pair does
WitnessChannelRoles ==
    /\ \E key \in DOMAIN queue :
          /\ <<key[2], key[1]>> \in DOMAIN queue
          /\ queue[key] # <<>>
          /\ queue[<<key[2], key[1]>>] # <<>>
    /\ \E key \in DOMAIN queue :
          /\ <<key[2], key[1]>> \notin DOMAIN queue
          /\ queue[key] # <<>>

\* C27: the message subproblem i takes from queue (j, i) in its round k,
\* before or after its resolvent, is the one j put in its own round k, and
\* its value is what j's prox call of round k returned.
RoundAligned ==
    [][\A key \in DOMAIN queue \cap DOMAIN queue' :
          Len(queue'[key]) < Len(queue[key]) =>
             LET j == key[1]
                 i == key[2]
                 m == Head(queue[key])
             IN  /\ m.k = itr[i]
                 /\ Len(x_hist[j]) > itr[i]
                 /\ m.x = x_hist[j][itr[i] + 1]]_vars

\* a subproblem is about to receive, in its first round, from a sender that
\* is rounds ahead and whose value changed from round to round; another is
\* at a receive that follows its sends
WitnessRoundAligned ==
    /\ \E i \in Nodes :
          /\ pc[i] = "get_up_LQ"
          /\ itr[i] = 0
          /\ Len(queue[<<peer(i), i>>]) > 1
          /\ queue[<<peer(i), i>>][1].x # queue[<<peer(i), i>>][2].x
    /\ \E i \in Nodes : pc[i] \in {"get_WQ", "get_down_BQ"}

\* C28: whenever evaluate writes the target t into terminate,
\* StreakNeeded - 1 + TargetAhead (19) <= t <= itrs - 1 for the itrs the
\* caller passed, so t is never 0 and never beyond the caller's bound.
TargetInRange ==
    [][(e_pc = "check" /\ terminate' # terminate) =>
          /\ terminate'.value >= StreakNeeded - 1 + TargetAhead
          /\ terminate'.value <= itrs_arg - 1
          /\ terminate'.value # 0]_vars

\* the target was written after a streak that a reset had delayed, and it is
\* the largest the caller's bound lets through
WitnessTargetInRange ==
    /\ targetSet
    /\ e_pc = "done"
    /\ terminate.value = itrs_arg - 1
    /\ terminate.value > StreakNeeded - 1 + TargetAhead

====
